---- MODULE Spec2Model ----
(***************************************************************************)
(* State-machine model of the CodeBloom backend (src/backend/app.py):      *)
(* the User table, the per-client Flask session (rate-limit window and     *)
(* flask-login binding), and the handlers register, login, verify_mfa,     *)
(* chat and logout.  Spec takes each request as one step, two clients in   *)
(* one rate-limit window; SpecSolo adds the clock for one client;          *)
(* SpecConcurrent takes register, login and verify_mfa in steps that       *)
(* interleave.                                                             *)
(***************************************************************************)
EXTENDS Integers, Sequences, FiniteSets, TLC

(* ---- bounds of the model ---- *)
MaxSoloTime == 32      \* the clock stops advancing here (minutes)
MaxCodes == 3          \* number of secrets.token_hex draws in one run
MaxInflight == 2       \* requests in progress at a time, where they interleave
MaxRequests == 5       \* requests sent in one run, where they interleave

(* ---- program constants ---- *)
max_attempts == 5      \* rate_limit(max_attempts=5, ...)
window_minutes == 15   \* rate_limit(..., window_minutes=15)
mfa_lock_attempts == 3 \* user.mfa_attempts >= 3
cooldown_minutes == 15 \* cooldown < timedelta(minutes=15)
session_lifetime == 30 \* PERMANENT_SESSION_LIFETIME = timedelta(minutes=30)

(* ---- input domains ---- *)
Sessions == {"c1", "c2"}                      \* the clients (one Flask session each)
Emails == {"a@x.com", "wrong@example.com"}    \* what a client may submit as email
NewEmails == {"a@x.com"}                      \* the e-mails clients register
Passwords == {"P1!", "WrongPassword123!"}     \* what a client may submit as password
NewPasswords == {"P1!"}                       \* the passwords clients register with
Messages == {"Test message", "None"}
Codes(minted) == 0..minted           \* what a client may submit as mfa_code:
                                     \* a minted code, or 0, which is never minted
None == -1                           \* a missing key / NULL column
NoUser == "anonymous"                \* no '_user_id' key in the session

VARIABLES
    users,        \* the User table: email -> row
    session,      \* the Flask session of each client: the signed cookie it holds
    now,          \* datetime.utcnow(), in minutes
    token_count,  \* how many secrets.token_hex(16) values were drawn for mfa_secret
    model,        \* the module-level model/tokenizer handles: TRUE when loading
                  \* succeeded at start, FALSE when it failed (both set to None)
    resp,         \* the last request and its response
    issued,       \* history: the codes minted for each e-mail, oldest first
    wrong_run,    \* history: incorrect codes submitted against a login's code since
                  \* the last Success (3 stands for three or more)
    strikes,      \* history: Invalid answers since the attempt counter was last reset
    consumed,     \* history: the code minted last has been accepted by verify_mfa
    pc,           \* position in the scripted end-to-end scenario (0 outside it)
    hist,         \* what each request of the scripted scenario was answered, in order
    started,      \* how many requests were sent, counted where they interleave
    inflight      \* the requests in progress where requests interleave: what
                  \* each was sent, the table as its query saw it, its copy of
                  \* the session and how far it got; NoRequest in a free place

vars == <<users, session, now, token_count, model, resp, issued, wrong_run, strikes,
          consumed, pc, hist, started, inflight>>

(* bcrypt.hashpw / bcrypt.checkpw: a one-way digest that check_password     *)
(* can only compare against, never invert.                                  *)
set_password(password) == <<"bcrypt", password>>

check_password(password_hash, password) == password_hash = <<"bcrypt", password>>

(* A fresh User row as register builds it (column defaults included). *)
NewUser(password, secret) ==
    [password_hash |-> set_password(password),
     mfa_secret |-> secret,
     is_verified |-> FALSE,
     mfa_attempts |-> 0,
     last_login_attempt |-> None]

(* The session of a client that has sent no request yet: no key is set and  *)
(* no cookie was signed.                                                    *)
EmptySession ==
    [login_attempts |-> None, login_reset_time |-> None, user_id |-> NoUser,
     signed_at |-> None]

(* Flask's open_session: the cookie is accepted when its signature is no    *)
(* older than PERMANENT_SESSION_LIFETIME; otherwise the request starts with *)
(* an empty session.                                                        *)
open_session(sn, t) ==
    IF sn.signed_at # None /\ t - sn.signed_at > session_lifetime
    THEN EmptySession
    ELSE sn

(* Flask's save_session: a session the request modified is signed at the    *)
(* time of the response and sent back; otherwise no cookie is sent and the  *)
(* client keeps the one it holds.                                           *)
save_session(held, opened, result, t) ==
    IF result = opened THEN held ELSE [result EXCEPT !.signed_at = t]

(* The places a request in progress can take, and a free place. *)
Slots == 1..MaxInflight

NoRequest ==
    [sid |-> "", op |-> "", email |-> "", password |-> "", code |-> None,
     seen |-> << >>, cookie |-> EmptySession, stage |-> "free"]

(* rate_limit.wrapped up to the admission test: create the window on first  *)
(* use, then reset it lazily when it is older than window_minutes.  The     *)
(* session hands login_reset_time back as the datetime that was stored.     *)
WindowInit(sn, t) ==
    IF sn.login_attempts = None
    THEN [sn EXCEPT !.login_attempts = 0, !.login_reset_time = t]
    ELSE sn

(* Mutant: the window is reset already when exactly window_minutes old. *)
WindowReset_at_boundary(sn, t) ==
    IF t - sn.login_reset_time >= window_minutes
    THEN [sn EXCEPT !.login_attempts = 0, !.login_reset_time = t]
    ELSE sn

WindowReset(sn, t) ==
    IF t - sn.login_reset_time > window_minutes
    THEN [sn EXCEPT !.login_attempts = 0, !.login_reset_time = t]
    ELSE sn

Window(sn, t) == WindowReset(WindowInit(sn, t), t)

(* Mutant: the admission test lets the counter reach max_attempts + 1. *)
RateLimited_off_by_one(sn, t) == Window(sn, t).login_attempts > max_attempts

RateLimited(sn, t) == Window(sn, t).login_attempts >= max_attempts

(* Mutant: the counter goes up on rejected requests too. *)
Admit_counts_rejected(sn, t) == [Window(sn, t) EXCEPT !.login_attempts = @ + 1]

(* The session as the wrapper leaves it: counted when admitted. *)
Admit(sn, t) ==
    IF RateLimited(sn, t)
    THEN Window(sn, t)
    ELSE [Window(sn, t) EXCEPT !.login_attempts = @ + 1]

(* Mutant: login_required left off, every caller passes. *)
IsAuthenticated_unchecked(sn) == TRUE

(* flask-login: current_user.is_authenticated *)
IsAuthenticated(sn) == sn.user_id # NoUser

(* What the last request was and what it did: the endpoint, the client, the *)
(* e-mail of the JSON body once the handler has read it, the HTTP status    *)
(* and error kind, the message handed to mail.send ("none", "verify",       *)
(* "mfa") and whether model.generate ran.                                   *)
Response(op, s, e, status, body, mail, gen) ==
    [op |-> op, sid |-> s, email |-> e, mfa_code |-> None,
     status |-> status, body |-> body, mail |-> mail, generated |-> gen]

(* The wrapper's own answer: the handler, and request.get_json, never run. *)
RateLimitedResponse(op, s) ==
    Response(op, s, "", 429, "RateLimited", "none", FALSE)

(* The session a request of client s starts with, and the cookies after    *)
(* the request has left its session as result.                              *)
Cookie(s) == open_session(session[s], now)

Save(s, opened, result) ==
    [session EXCEPT ![s] = save_session(@, opened, result, now)]

Init ==
    /\ users = << >>
    /\ session = [s \in Sessions |-> EmptySession]
    /\ now = 0
    /\ token_count = 0
    /\ model \in BOOLEAN
    /\ resp = Response("start", "", "", 0, "", "none", FALSE)
    /\ issued = [e \in Emails |-> << >>]
    /\ wrong_run = [e \in Emails |-> 0]
    /\ strikes = [e \in Emails |-> 0]
    /\ consumed = [e \in Emails |-> FALSE]
    /\ pc = 0
    /\ hist = << >>
    /\ started = 0
    /\ inflight = [k \in Slots |-> NoRequest]

(* ---- POST /api/register ---- *)
register(s, e, pw, send_fails) ==
    LET opened == Cookie(s) IN
    /\ session' = Save(s, opened, Admit(opened, now))
    /\ IF RateLimited(opened, now)
       THEN /\ resp' = RateLimitedResponse("register", s)
            /\ UNCHANGED <<users, token_count>>
       ELSE IF e \in DOMAIN users
       THEN /\ resp' = Response("register", s, e, 400, "DuplicateEmail", "none", FALSE)
            /\ UNCHANGED <<users, token_count>>
       ELSE /\ token_count < MaxCodes
            /\ token_count' = token_count + 1
            /\ users' = users @@ (e :> NewUser(pw, token_count + 1))
            /\ resp' = IF send_fails
                       THEN Response("register", s, e, 500, "DeliveryError", "verify", FALSE)
                       ELSE Response("register", s, e, 201, "", "verify", FALSE)
    /\ UNCHANGED <<now, model>>

(* ---- POST /api/login ---- *)
(* The outcome of the handler body, before anything is written. *)
AccountLocked(u, t) ==
    /\ u.mfa_attempts >= mfa_lock_attempts
    /\ u.last_login_attempt # None
    /\ t - u.last_login_attempt < cooldown_minutes

(* Mutant: the state of the row is tested before the password. *)
login_outcome_state_first(us, e, pw, t) ==
    IF e \in DOMAIN us
    THEN IF ~us[e].is_verified THEN "EmailNotVerified"
         ELSE IF AccountLocked(us[e], t) THEN "AccountLocked"
         ELSE IF check_password(us[e].password_hash, pw) THEN "MFASent"
         ELSE "InvalidCredentials"
    ELSE "InvalidCredentials"

login_outcome(us, e, pw, t) ==
    IF e \in DOMAIN us /\ check_password(us[e].password_hash, pw)
    THEN IF ~us[e].is_verified THEN "EmailNotVerified"
         ELSE IF AccountLocked(us[e], t) THEN "AccountLocked"
         ELSE "MFASent"
    ELSE "InvalidCredentials"

(* Mutant: the new secret is mailed but the old one stays in the row. *)
login_commit_keeps_secret(u, secret, t) ==
    [u EXCEPT !.mfa_attempts =
                  IF u.mfa_attempts >= mfa_lock_attempts /\ u.last_login_attempt # None
                  THEN 0 ELSE @,
              !.last_login_attempt = t]

(* Mutant: nothing of the login reaches the table. *)
login_commit_rolled_back(u, secret, t) == u

(* Mutant: every login that issues a code zeroes the attempt counter. *)
login_commit_resets_counter(u, secret, t) ==
    [u EXCEPT !.mfa_attempts = 0, !.mfa_secret = secret, !.last_login_attempt = t]

(* The row as a login that passes every check commits it. *)
login_commit(u, secret, t) ==
    [u EXCEPT !.mfa_attempts =
                  IF u.mfa_attempts >= mfa_lock_attempts /\ u.last_login_attempt # None
                  THEN 0 ELSE @,
              !.mfa_secret = secret,
              !.last_login_attempt = t]

login(s, e, pw, send_fails) ==
    LET opened == Cookie(s) IN
    /\ session' = Save(s, opened, Admit(opened, now))
    /\ IF RateLimited(opened, now)
       THEN /\ resp' = RateLimitedResponse("login", s)
            /\ UNCHANGED <<users, token_count>>
       ELSE CASE login_outcome(users, e, pw, now) = "InvalidCredentials" ->
                 /\ resp' = Response("login", s, e, 401, "InvalidCredentials", "none", FALSE)
                 /\ UNCHANGED <<users, token_count>>
              [] login_outcome(users, e, pw, now) = "EmailNotVerified" ->
                 /\ resp' = Response("login", s, e, 401, "EmailNotVerified", "none", FALSE)
                 /\ UNCHANGED <<users, token_count>>
              [] login_outcome(users, e, pw, now) = "AccountLocked" ->
                 /\ resp' = Response("login", s, e, 429, "AccountLocked", "none", FALSE)
                 /\ UNCHANGED <<users, token_count>>
              [] login_outcome(users, e, pw, now) = "MFASent" ->
                 /\ token_count < MaxCodes
                 /\ token_count' = token_count + 1
                 /\ users' = [users EXCEPT ![e] = login_commit(@, token_count + 1, now)]
                 /\ resp' = IF send_fails
                            THEN Response("login", s, e, 500, "DeliveryError", "mfa", FALSE)
                            ELSE Response("login", s, e, 200, "", "mfa", FALSE)
    /\ UNCHANGED <<now, model>>

(* ---- POST /api/verify-mfa ---- *)
(* Mutant: the lockout test allows a fourth guess. *)
verify_outcome_late_lock(us, e, c) ==
    IF e \notin DOMAIN us THEN "UserNotFound"
    ELSE IF us[e].mfa_attempts > mfa_lock_attempts THEN "TooManyMFAAttempts"
    ELSE IF c = us[e].mfa_secret THEN "Success"
    ELSE "InvalidMFACode"

verify_outcome(us, e, c) ==
    IF e \notin DOMAIN us THEN "UserNotFound"
    ELSE IF us[e].mfa_attempts >= mfa_lock_attempts THEN "TooManyMFAAttempts"
    ELSE IF c = us[e].mfa_secret THEN "Success"
    ELSE "InvalidMFACode"

verify_commit(u, outcome) ==
    IF outcome = "Success" THEN [u EXCEPT !.mfa_attempts = 0]
    ELSE IF outcome = "InvalidMFACode" THEN [u EXCEPT !.mfa_attempts = @ + 1]
    ELSE u

(* flask_login.login_user: bind the row to the client's session. *)
login_user(sn, e) == [sn EXCEPT !.user_id = e]

verify_status(outcome) ==
    CASE outcome = "UserNotFound" -> 404
      [] outcome = "TooManyMFAAttempts" -> 429
      [] outcome = "Success" -> 200
      [] outcome = "InvalidMFACode" -> 401

verify_mfa(s, e, c) ==
    LET opened == Cookie(s) IN
    /\ IF RateLimited(opened, now)
       THEN /\ session' = Save(s, opened, Admit(opened, now))
            /\ resp' = RateLimitedResponse("verify_mfa", s)
            /\ UNCHANGED users
       ELSE LET outcome == verify_outcome(users, e, c) IN
            /\ users' = IF e \in DOMAIN users
                        THEN [users EXCEPT ![e] = verify_commit(@, outcome)]
                        ELSE users
            /\ session' = Save(s, opened, IF outcome = "Success"
                                           THEN login_user(Admit(opened, now), e)
                                           ELSE Admit(opened, now))
            /\ resp' = [Response("verify_mfa", s, e, verify_status(outcome),
                                 IF outcome = "Success" THEN "" ELSE outcome, "none", FALSE)
                        EXCEPT !.mfa_code = c]
    /\ UNCHANGED <<now, model, token_count>>

(* ---- POST /api/chat (login_required) ---- *)
chat(s, msg, generation_ok) ==
    /\ resp' =
          IF ~IsAuthenticated(Cookie(s))
          THEN Response("chat", s, "", 401, "Unauthenticated", "none", FALSE)
          ELSE IF ~model
          THEN Response("chat", s, "", 503, "ModelUnavailable", "none", FALSE)
          ELSE IF msg = "None"      \* the tokenizer raises before model.generate
          THEN Response("chat", s, "", 500, "GenerationError", "none", FALSE)
          ELSE IF generation_ok
          THEN Response("chat", s, "", 200, "", "none", TRUE)
          ELSE Response("chat", s, "", 500, "GenerationError", "none", TRUE)
    /\ UNCHANGED <<users, session, now, model, token_count>>

(* ---- POST /api/logout (login_required) ---- *)
(* Mutant: the binding survives logout_user. *)
logout_user_keeps_binding(sn) == sn

logout_user(sn) ==[sn EXCEPT !.user_id = NoUser]

logout(s) ==
    /\ IF ~IsAuthenticated(Cookie(s))
       THEN /\ resp' = Response("logout", s, "", 401, "Unauthenticated", "none", FALSE)
            /\ UNCHANGED session
       ELSE /\ resp' = Response("logout", s, "", 200, "", "none", FALSE)
            /\ session' = Save(s, Cookie(s), logout_user(Cookie(s)))
    /\ UNCHANGED <<users, now, model, token_count>>

(* ---- e-mail verification, as the tests perform it on the row ---- *)
mark_verified(e) ==
    /\ e \in DOMAIN users
    /\ ~users[e].is_verified
    /\ users' = [users EXCEPT ![e].is_verified = TRUE]
    /\ resp' = Response("mark_verified", "", e, 0, "", "none", FALSE)
    /\ UNCHANGED <<session, now, model, token_count>>

(* ---- history variables, read off the request just answered ---- *)
IssuedNow == resp'.op \in {"register", "login"} /\ resp'.mail # "none"

CurrentCode(e) == issued[e][Len(issued[e])]

OldCodes(e) == {issued[e][i] : i \in 1..(Len(issued[e]) - 1)}

(* A handled verify_mfa for a user holding a code issued by a login,        *)
(* carrying a code that is not that one.                                    *)
IncorrectNow ==
    /\ resp'.op = "verify_mfa" /\ resp'.body # "RateLimited"
    /\ Len(issued[resp'.email]) >= 2
    /\ resp'.mfa_code # CurrentCode(resp'.email)

SuccessNow == resp'.op = "verify_mfa" /\ resp'.status = 200

(* A login that issues a code 15 minutes or more after the previous login   *)
(* attempt of a user who has three strikes: the lockout is lifted.          *)
LiftedNow ==
    /\ IssuedNow /\ resp'.op = "login"
    /\ strikes[resp'.email] >= mfa_lock_attempts
    /\ users[resp'.email].last_login_attempt # None
    /\ now - users[resp'.email].last_login_attempt >= cooldown_minutes

Observe ==
    /\ issued' = IF IssuedNow
                 THEN [issued EXCEPT ![resp'.email] = Append(@, token_count')]
                 ELSE issued
    /\ wrong_run' = IF SuccessNow THEN [wrong_run EXCEPT ![resp'.email] = 0]
                    ELSE IF IncorrectNow
                    THEN [wrong_run EXCEPT ![resp'.email] =
                              IF @ < mfa_lock_attempts THEN @ + 1 ELSE @]
                    ELSE wrong_run
    /\ strikes' = IF SuccessNow \/ LiftedNow THEN [strikes EXCEPT ![resp'.email] = 0]
                  ELSE IF resp'.op = "verify_mfa" /\ resp'.body = "InvalidMFACode"
                  THEN [strikes EXCEPT ![resp'.email] = @ + 1]
                  ELSE strikes
    /\ consumed' = IF SuccessNow THEN [consumed EXCEPT ![resp'.email] = TRUE]
                   ELSE IF IssuedNow THEN [consumed EXCEPT ![resp'.email] = FALSE]
                   ELSE consumed

(* What mail.send may do, and whether model.generate may fail: drawn only   *)
(* for a request that gets as far as calling it.                            *)
MailOutcomes(sends) == IF sends THEN BOOLEAN ELSE {FALSE}

register_sends(s, e) == ~RateLimited(Cookie(s), now) /\ e \notin DOMAIN users

login_sends(s, e, pw) ==
    ~RateLimited(Cookie(s), now) /\ login_outcome(users, e, pw, now) = "MFASent"

GenerationOutcomes(s, msg) ==
    IF IsAuthenticated(Cookie(s)) /\ model /\ msg # "None" THEN BOOLEAN ELSE {FALSE}

(* The JSON bodies a client may post: the wrapper answers 429, and          *)
(* login_required 401, before request.get_json() is called, so one body     *)
(* stands for all of them there.                                            *)
Bodies(read, bodies) == IF read THEN bodies ELSE {CHOOSE b \in bodies : TRUE}

Admitted(s) == ~RateLimited(Cookie(s), now)

Register == \E s \in Sessions, e \in NewEmails, pw \in NewPasswords :
            \E d \in MailOutcomes(register_sends(s, e)) :
                register(s, e, pw, d) /\ Observe /\ UNCHANGED <<pc, hist, started, inflight>>
Login == \E s \in Sessions :
         \E b \in Bodies(Admitted(s), Emails \X Passwords) :
         \E d \in MailOutcomes(login_sends(s, b[1], b[2])) :
                login(s, b[1], b[2], d) /\ Observe /\ UNCHANGED <<pc, hist, started, inflight>>
VerifyMfa == \E s \in Sessions :
             \E b \in Bodies(Admitted(s), Emails \X Codes(token_count)) :
                verify_mfa(s, b[1], b[2]) /\ Observe /\ UNCHANGED <<pc, hist, started, inflight>>
Chat == \E s \in Sessions :
        \E m \in Bodies(IsAuthenticated(Cookie(s)) /\ model, Messages) :
        \E ok \in GenerationOutcomes(s, m) :
                chat(s, m, ok) /\ Observe /\ UNCHANGED <<pc, hist, started, inflight>>
Logout == \E s \in Sessions : logout(s) /\ Observe /\ UNCHANGED <<pc, hist, started, inflight>>
MarkVerified == \E e \in Emails : mark_verified(e) /\ Observe /\ UNCHANGED <<pc, hist, started, inflight>>

(* Two clients, every endpoint, all requests within one rate-limit window. *)
Next == Register \/ Login \/ VerifyMfa \/ Chat \/ Logout \/ MarkVerified

Spec == Init /\ [][Next]_vars

(* ---- one client and a clock that runs past the rate-limit window ---- *)
SoloClient == "c1"

(* The gaps between two requests: the window length exactly, and one more. *)
(* Two of them in a row outlast the session cookie.                         *)
Delays == {window_minutes, window_minutes + 1}

(* Time passes; the client keeps the cookie it holds. *)
Wait(d) ==
    /\ now + d <= MaxSoloTime
    /\ now' = now + d
    /\ resp' = Response("tick", "", "", 0, "", "none", FALSE)
    /\ UNCHANGED <<users, session, model, token_count>>

SoloRegister == \E e \in NewEmails, pw \in NewPasswords :
                \E d \in MailOutcomes(register_sends(SoloClient, e)) :
                    register(SoloClient, e, pw, d) /\ Observe /\ UNCHANGED <<pc, hist, started, inflight>>
SoloLogin == \E b \in Bodies(Admitted(SoloClient), Emails \X Passwords) :
             \E d \in MailOutcomes(login_sends(SoloClient, b[1], b[2])) :
                    login(SoloClient, b[1], b[2], d) /\ Observe /\ UNCHANGED <<pc, hist, started, inflight>>
SoloVerifyMfa == \E b \in Bodies(Admitted(SoloClient), Emails \X Codes(token_count)) :
                    verify_mfa(SoloClient, b[1], b[2]) /\ Observe /\ UNCHANGED <<pc, hist, started, inflight>>
SoloMarkVerified == \E e \in Emails : mark_verified(e) /\ Observe /\ UNCHANGED <<pc, hist, started, inflight>>
SoloWait == \E d \in Delays : Wait(d) /\ Observe /\ UNCHANGED <<pc, hist, started, inflight>>

SoloNext == SoloRegister \/ SoloLogin \/ SoloVerifyMfa \/ SoloMarkVerified \/ SoloWait

SpecSolo == Init /\ [][SoloNext]_vars

(* ---- requests served concurrently ---- *)
(* Nothing in app.py serialises requests: each runs in its own database     *)
(* session and on its own copy of the client's session cookie, and the      *)
(* server may run other requests between its query, its commit and its      *)
(* response.  A request is taken in three steps: query (rate_limit.wrapped  *)
(* on the copy of the cookie, which answers 429 at once or counts the       *)
(* request, then request.get_json and User.query...first()), finish (the    *)
(* tests and assignments on what the query loaded, the commit, mail.send,   *)
(* and the response built) and respond (the response, with the cookie,      *)
(* reaches the client).                                                     *)

(* db.session.commit() on a loaded row: the UPDATE carries the attributes   *)
(* whose assigned value differs from the loaded one, the others keep what   *)
(* the table holds.                                                         *)
commit(stored, loaded, assigned) ==
    [a \in DOMAIN stored |->
        IF assigned[a] # loaded[a] THEN assigned[a] ELSE stored[a]]

query(k, s, op, e, pw, c) ==
    /\ started < MaxRequests
    /\ started' = started + 1
    /\ inflight[k] = NoRequest
    /\ \A j \in Slots : j < k => inflight[j] # NoRequest
    /\ IF RateLimited(Cookie(s), now)
       THEN /\ session' = Save(s, Cookie(s), Admit(Cookie(s), now))
            /\ resp' = RateLimitedResponse(op, s)
            /\ UNCHANGED inflight
       ELSE /\ inflight' = [inflight EXCEPT ![k] =
                                [sid |-> s, op |-> op, email |-> e, password |-> pw,
                                 code |-> c, seen |-> users,
                                 cookie |-> Admit(Cookie(s), now), stage |-> "queried"]]
            /\ resp' = Response("query", s, e, 0, "", "none", FALSE)
            /\ UNCHANGED session
    /\ UNCHANGED <<users, now, model, token_count>>

register_query(k, s, e, pw) == query(k, s, "register", e, pw, None)

login_query(k, s, e, pw) == query(k, s, "login", e, pw, None)

verify_query(k, s, e, c) == query(k, s, "verify_mfa", e, "", c)

(* The request in place k got as far as its query and belongs to op. *)
Queried(k, op) == inflight[k].op = op /\ inflight[k].stage = "queried"

(* register from line 104 on.  The INSERT of an e-mail that another request *)
(* committed since the query violates the UNIQUE constraint: commit raises  *)
(* IntegrityError, which nothing catches, and the code drawn at line 109 is *)
(* dropped with the row.                                                    *)
register_finish(k, send_fails) ==
    /\ Queried(k, "register")
    /\ LET s == inflight[k].sid
           e == inflight[k].email
       IN  IF e \in DOMAIN inflight[k].seen
           THEN /\ resp' = Response("register", s, e, 400, "DuplicateEmail", "none", FALSE)
                /\ UNCHANGED <<users, token_count>>
           ELSE IF e \in DOMAIN users
           THEN /\ resp' = Response("register", s, e, 500, "IntegrityError", "none", FALSE)
                /\ UNCHANGED <<users, token_count>>
           ELSE /\ token_count < MaxCodes
                /\ token_count' = token_count + 1
                /\ users' = users @@ (e :> NewUser(inflight[k].password, token_count + 1))
                /\ resp' = IF send_fails
                           THEN Response("register", s, e, 500, "DeliveryError", "verify", FALSE)
                           ELSE Response("register", s, e, 201, "", "verify", FALSE)
    /\ inflight' = [inflight EXCEPT ![k].stage = "answered"]
    /\ UNCHANGED <<session, now, model>>

(* login from line 126 on, on the row its query loaded. *)
login_finish(k, send_fails) ==
    /\ Queried(k, "login")
    /\ LET s == inflight[k].sid
           e == inflight[k].email
           seen == inflight[k].seen
           outcome == login_outcome(seen, e, inflight[k].password, now)
       IN  CASE outcome = "InvalidCredentials" ->
                 /\ resp' = Response("login", s, e, 401, "InvalidCredentials", "none", FALSE)
                 /\ UNCHANGED <<users, token_count>>
             [] outcome = "EmailNotVerified" ->
                 /\ resp' = Response("login", s, e, 401, "EmailNotVerified", "none", FALSE)
                 /\ UNCHANGED <<users, token_count>>
             [] outcome = "AccountLocked" ->
                 /\ resp' = Response("login", s, e, 429, "AccountLocked", "none", FALSE)
                 /\ UNCHANGED <<users, token_count>>
             [] outcome = "MFASent" ->
                 /\ token_count < MaxCodes
                 /\ token_count' = token_count + 1
                 /\ users' = [users EXCEPT ![e] =
                                  commit(@, seen[e], login_commit(seen[e], token_count + 1, now))]
                 /\ resp' = IF send_fails
                            THEN Response("login", s, e, 500, "DeliveryError", "mfa", FALSE)
                            ELSE Response("login", s, e, 200, "", "mfa", FALSE)
    /\ inflight' = [inflight EXCEPT ![k].stage = "answered"]
    /\ UNCHANGED <<session, now, model>>

(* verify_mfa from line 149 on, on the row its query loaded. *)
verify_finish(k) ==
    /\ Queried(k, "verify_mfa")
    /\ LET s == inflight[k].sid
           e == inflight[k].email
           c == inflight[k].code
           seen == inflight[k].seen
           outcome == verify_outcome(seen, e, c)
       IN  /\ users' = IF e \in DOMAIN seen
                       THEN [users EXCEPT ![e] =
                                commit(@, seen[e], verify_commit(seen[e], outcome))]
                       ELSE users
           /\ inflight' = [inflight EXCEPT
                              ![k].stage = "answered",
                              ![k].cookie = IF outcome = "Success" THEN login_user(@, e) ELSE @]
           /\ resp' = [Response("verify_mfa", s, e, verify_status(outcome),
                                IF outcome = "Success" THEN "" ELSE outcome, "none", FALSE)
                       EXCEPT !.mfa_code = c]
    /\ UNCHANGED <<session, now, model, token_count>>

(* The response reaches the client: the wrapper modified the session, so    *)
(* save_session signs the request's copy and the client's cookie becomes    *)
(* that copy, whatever other responses put there since the request began.   *)
respond(k) ==
    /\ inflight[k].stage = "answered"
    /\ session' = [session EXCEPT ![inflight[k].sid] =
                       [inflight[k].cookie EXCEPT !.signed_at = now]]
    /\ inflight' = [inflight EXCEPT ![k] = NoRequest]
    /\ resp' = Response("respond", inflight[k].sid, inflight[k].email, 0, "", "none", FALSE)
    /\ UNCHANGED <<users, now, model, token_count>>

RegisterQuery == \E k \in Slots, s \in Sessions, e \in NewEmails, pw \in NewPasswords :
                    register_query(k, s, e, pw) /\ Observe /\ UNCHANGED <<pc, hist>>
LoginQuery == \E k \in Slots, s \in Sessions, e \in NewEmails, pw \in NewPasswords :
                    login_query(k, s, e, pw) /\ Observe /\ UNCHANGED <<pc, hist>>
VerifyQuery == \E k \in Slots, s \in Sessions :
               \E b \in Bodies(Admitted(s), NewEmails \X Codes(token_count)) :
                    verify_query(k, s, b[1], b[2]) /\ Observe /\ UNCHANGED <<pc, hist>>
RegisterFinish == \E k \in Slots :
                  \E d \in MailOutcomes(inflight[k].email \notin DOMAIN inflight[k].seen
                                         /\ inflight[k].email \notin DOMAIN users) :
                    register_finish(k, d) /\ Observe /\ UNCHANGED <<pc, hist, started>>
LoginFinish == \E k \in Slots :
               \E d \in MailOutcomes(login_outcome(inflight[k].seen, inflight[k].email,
                                                    inflight[k].password, now) = "MFASent") :
                    login_finish(k, d) /\ Observe /\ UNCHANGED <<pc, hist, started>>
VerifyFinish == \E k \in Slots : verify_finish(k) /\ Observe /\ UNCHANGED <<pc, hist, started>>
Respond == \E k \in Slots : respond(k) /\ Observe /\ UNCHANGED <<pc, hist, started>>
ConcMarkVerified == \E e \in Emails :
                    mark_verified(e) /\ Observe /\ UNCHANGED <<pc, hist, started, inflight>>

ConcNext ==
    \/ RegisterQuery \/ LoginQuery \/ VerifyQuery
    \/ RegisterFinish \/ LoginFinish \/ VerifyFinish
    \/ Respond \/ ConcMarkVerified

SpecConcurrent == Init /\ [][ConcNext]_vars

(* ---- the end-to-end scenario of the specification, one client ---- *)
(* register ; login ; mark verified ; login ; verify_mfa with a wrong code  *)
(* three times ; verify_mfa a fourth time with any code.  hist records what *)
(* each request was answered and the attempt counter it left.               *)
Entry(e) ==
    [sid |-> resp'.sid, email |-> e, status |-> resp'.status, body |-> resp'.body,
     mfa_attempts |-> users'[e].mfa_attempts]

Step(e) ==
    pc' = pc + 1 /\ hist' = Append(hist, Entry(e)) /\ UNCHANGED <<started, inflight>>

ScenarioRegister ==
    \E s \in Sessions, e \in Emails, pw \in NewPasswords, f \in BOOLEAN :
        pc = 0 /\ register(s, e, pw, f) /\ Observe /\ Step(e)

ScenarioLogin ==
    /\ pc \in {1, 3}
    /\ \E pw \in NewPasswords, f \in BOOLEAN :
        /\ check_password(users[hist[1].email].password_hash, pw)
        /\ login(hist[1].sid, hist[1].email, pw, f) /\ Observe /\ Step(hist[1].email)

ScenarioMarkVerified ==
    pc = 2 /\ mark_verified(hist[1].email) /\ Observe /\ pc' = 3
    /\ UNCHANGED <<hist, started, inflight>>

ScenarioWrongCode ==
    /\ pc \in {4, 5, 6}
    /\ \E c \in Codes(token_count) \ {users[hist[1].email].mfa_secret} :
        verify_mfa(hist[1].sid, hist[1].email, c) /\ Observe /\ Step(hist[1].email)

ScenarioFourthCode ==
    /\ pc = 7
    /\ \E c \in Codes(token_count) :
        verify_mfa(hist[1].sid, hist[1].email, c) /\ Observe /\ Step(hist[1].email)

ScenarioNext ==
    \/ ScenarioRegister \/ ScenarioLogin \/ ScenarioMarkVerified
    \/ ScenarioWrongCode \/ ScenarioFourthCode

SpecScenario == Init /\ [][ScenarioNext]_vars

(* ------------------------------------------------------------------------ *)
(* Properties                                                               *)
(* ------------------------------------------------------------------------ *)

(* The request just answered was handled (not turned away by rate_limit)    *)
(* and named a registered e-mail.                                           *)
HandledFor(op) ==
    /\ resp'.op = op
    /\ resp'.body # "RateLimited"
    /\ resp'.email \in DOMAIN users

(* The user the server finds the client bound to, after the step and       *)
(* before it (a cookie past its lifetime binds nobody).                     *)
BindingUnchanged(s) ==
    open_session(session'[s], now').user_id = open_session(session[s], now).user_id

(* MFAPending: the code minted last came from a login and is unconsumed. *)
MFAPending(e) == Len(issued[e]) >= 2 /\ ~consumed[e]

(* C1: a session becomes (or is again) bound to a user only by a verify_mfa *)
(* answered Success for that user, and that user is e-mail verified and     *)
(* MFAPending, i.e. holds an unconsumed code issued by a login.             *)
C1_AuthenticatedOnlyByMfaOfVerifiedUser ==
    [][/\ \A s \in Sessions :
             (session'[s].user_id # NoUser /\ ~BindingUnchanged(s)) =>
                 /\ resp'.op = "verify_mfa" /\ resp'.status = 200
                 /\ resp'.sid = s /\ resp'.email = session'[s].user_id
       /\ (resp'.op = "verify_mfa" /\ resp'.status = 200) =>
                 /\ session'[resp'.sid].user_id = resp'.email
                 /\ users[resp'.email].is_verified
                 /\ MFAPending(resp'.email)]_vars

(* C2, as stated: once three incorrect codes have been submitted for a user *)
(* with no Success in between, every handled verify_mfa for that user is    *)
(* answered 429 TooManyMFAAttempts and binds no session, whenever fewer     *)
(* than 15 minutes have elapsed since the user's last login attempt.        *)
C2_RejectedWithinFifteenMinutesOfLastLogin ==
    [][(/\ HandledFor("verify_mfa")
        /\ wrong_run[resp'.email] >= mfa_lock_attempts
        /\ users[resp'.email].last_login_attempt # None
        /\ now - users[resp'.email].last_login_attempt < cooldown_minutes) =>
           /\ resp'.status = 429 /\ resp'.body = "TooManyMFAAttempts"
           /\ BindingUnchanged(resp'.sid)]_vars

(* C2, amended: once three incorrect codes have been answered Invalid since *)
(* the attempt counter was last reset (by a Success or by a login that      *)
(* found the cooldown elapsed), every handled verify_mfa for that user, the *)
(* correct code included, is answered 429 TooManyMFAAttempts, binds no      *)
(* session and changes no row; and while fewer than 15 minutes have elapsed *)
(* since the user's last login attempt no login changes the row, so the     *)
(* lockout lasts at least until then.                                       *)
C2_RejectedUntilLockoutLifted ==
    [][/\ (HandledFor("verify_mfa") /\ strikes[resp'.email] >= mfa_lock_attempts) =>
              /\ resp'.status = 429 /\ resp'.body = "TooManyMFAAttempts"
              /\ BindingUnchanged(resp'.sid)
              /\ users' = users
       /\ (/\ HandledFor("login")
           /\ strikes[resp'.email] >= mfa_lock_attempts
           /\ users[resp'.email].last_login_attempt # None
           /\ now - users[resp'.email].last_login_attempt < cooldown_minutes) =>
              /\ resp'.status \in {401, 429}
              /\ users' = users]_vars

(* C2 witness: the correct code was just turned away with 429 after three   *)
(* Invalid answers.                                                         *)
C2_Witness ==
    /\ resp.op = "verify_mfa" /\ resp.body = "TooManyMFAAttempts"
    /\ strikes[resp.email] = mfa_lock_attempts
    /\ resp.mfa_code = CurrentCode(resp.email)
    /\ users[resp.email].last_login_attempt # None

(* C3: once a later code has been minted for a user, a verify_mfa carrying  *)
(* any earlier code of that user is never answered Success and binds no     *)
(* session.                                                                 *)
C3_OldCodeRejected ==
    [][(HandledFor("verify_mfa") /\ resp'.mfa_code \in OldCodes(resp'.email)) =>
           /\ resp'.status # 200
           /\ BindingUnchanged(resp'.sid)]_vars

(* C3 witness: an earlier, never consumed code was submitted after a login  *)
(* minted a new one, and was answered Invalid.                              *)
C3_Witness ==
    /\ resp.op = "verify_mfa" /\ resp.status = 401
    /\ resp.email \in DOMAIN users
    /\ resp.mfa_code \in OldCodes(resp.email)
    /\ ~consumed[resp.email]

(* C4: a code issued by a login and already accepted once is not accepted   *)
(* again: a handled verify_mfa carrying it, with no login minting a new     *)
(* code in between, is not answered Success and binds no session.           *)
C4_CodeIsSingleUse ==
    [][(/\ HandledFor("verify_mfa")
        /\ Len(issued[resp'.email]) >= 2
        /\ consumed[resp'.email]
        /\ resp'.mfa_code = CurrentCode(resp'.email)) =>
           /\ resp'.status # 200
           /\ BindingUnchanged(resp'.sid)]_vars

(* C5: within one window of one client, a request to register, login or     *)
(* verify-mfa is admitted while fewer than five were admitted before it     *)
(* (the shared counter then goes up by one), and is answered 429            *)
(* RateLimited, with nothing changed, once five were.                       *)
C5_FiveAdmittedSixthRejected ==
    [][\A s \in Sessions :
         (/\ resp'.op \in {"register", "login", "verify_mfa"}
          /\ resp'.sid = s
          /\ \/ session[s].login_attempts = None
             \/ now - session[s].login_reset_time <= window_minutes) =>
            LET k == IF session[s].login_attempts = None THEN 0
                     ELSE session[s].login_attempts
            IN  /\ k < max_attempts =>
                       /\ resp'.body # "RateLimited"
                       /\ session'[s].login_attempts = k + 1
                /\ k >= max_attempts =>
                       /\ resp'.status = 429 /\ resp'.body = "RateLimited"
                       /\ session'[s].login_attempts = k
                       /\ users' = users
                       /\ BindingUnchanged(s)]_vars

(* C5 witness: a client's sixth request in its window, a register, was      *)
(* turned away after five admitted ones.                                    *)
C5_Witness ==
    /\ resp.op = "register" /\ resp.body = "RateLimited" /\ resp.status = 429
    /\ session[resp.sid].login_attempts = max_attempts
    /\ "a@x.com" \in DOMAIN users

(* C6: a handled register answers 201 and creates the row when the e-mail   *)
(* is new, and answers 400 DuplicateEmail, leaving the table as it was,     *)
(* when the e-mail is already registered.                                   *)
C6_SecondRegisterRejected ==
    [][(resp'.op = "register" /\ resp'.body # "RateLimited") =>
           IF resp'.email \in DOMAIN users
           THEN /\ resp'.status = 400 /\ resp'.body = "DuplicateEmail"
                /\ users' = users
           ELSE /\ resp'.status = 201
                /\ DOMAIN users' = DOMAIN users \cup {resp'.email}]_vars

(* C7: a handled login answers InvalidCredentials for an unknown e-mail or  *)
(* a wrong password, EmailNotVerified for an unverified user, AccountLocked *)
(* for a locked user, each time leaving the table unchanged and sending no  *)
(* message; otherwise it stores a new code and the time and answers 200.    *)
C7_LoginOutcomes ==
    [][\A s \in Sessions, e \in Emails, pw \in Passwords, d \in BOOLEAN :
         (login(s, e, pw, d) /\ ~RateLimited(Cookie(s), now)) =>
            IF e \notin DOMAIN users \/ ~check_password(users[e].password_hash, pw)
            THEN /\ resp'.status = 401 /\ resp'.body = "InvalidCredentials"
                 /\ users' = users /\ resp'.mail = "none"
            ELSE IF ~users[e].is_verified
            THEN /\ resp'.status = 401 /\ resp'.body = "EmailNotVerified"
                 /\ users' = users /\ resp'.mail = "none"
            ELSE IF /\ users[e].mfa_attempts >= mfa_lock_attempts
                    /\ users[e].last_login_attempt # None
                    /\ now - users[e].last_login_attempt < cooldown_minutes
            THEN /\ resp'.status = 429 /\ resp'.body = "AccountLocked"
                 /\ users' = users /\ resp'.mail = "none"
            ELSE /\ resp'.status = 200
                 /\ users'[e].mfa_secret # users[e].mfa_secret
                 /\ users'[e].last_login_attempt = now
                 /\ resp'.mail = "mfa"]_vars

(* C8: the scenario is answered, in order, 201, 401 EmailNotVerified, 200,  *)
(* 401 Invalid three times with the attempt counter at 1, 2, 3, and 429     *)
(* for the fourth code (TooManyMFAAttempts/AccountLocked).                  *)
C8_ScenarioResponses ==
    pc = 8 =>
        /\ [i \in 1..7 |-> hist[i].status] = <<201, 401, 200, 401, 401, 401, 429>>
        /\ hist[2].body = "EmailNotVerified"
        /\ \A i \in 4..6 : hist[i].body = "InvalidMFACode"
        /\ [i \in 4..6 |-> hist[i].mfa_attempts] = (4 :> 1) @@ (5 :> 2) @@ (6 :> 3)
        /\ hist[7].body \in {"TooManyMFAAttempts", "AccountLocked"}

(* C9: right after a login answered 200, a handled verify_mfa carrying the  *)
(* code just minted is answered 200 and binds the submitting session.       *)
C9_FreshCodeAccepted ==
    [][(/\ resp.op = "login" /\ resp.status = 200
        /\ HandledFor("verify_mfa")
        /\ resp'.email = resp.email
        /\ resp'.mfa_code = CurrentCode(resp.email)) =>
           /\ resp'.status = 200
           /\ session'[resp'.sid].user_id = resp.email]_vars

(* C10: a chat request from a session that is not authenticated is answered *)
(* 401, never reaches model.generate, and changes no row and no session.    *)
C10_ChatRequiresAuthentication ==
    [][(resp'.op = "chat" /\ Cookie(resp'.sid).user_id = NoUser) =>
           /\ resp'.status = 401
           /\ ~resp'.generated
           /\ users' = users
           /\ session' = session]_vars

(* C10 witness: a logged-out client was refused while another client is     *)
(* authenticated.                                                           *)
C10_Witness ==
    /\ resp.op = "chat" /\ resp.status = 401
    /\ session[resp.sid].user_id = NoUser
    /\ session[resp.sid].login_attempts # None
    /\ \E s \in Sessions : session[s].user_id # NoUser

(* C11: a register or login whose mail.send fails still answers its success *)
(* response (201 for register, 200 for login).                              *)
C11_SendFailureDoesNotFailRequest ==
    [][\A s \in Sessions, e \in Emails, pw \in Passwords :
         /\ (register(s, e, pw, TRUE) /\ resp'.mail = "verify") => resp'.status = 201
         /\ (login(s, e, pw, TRUE) /\ resp'.mail = "mfa") => resp'.status = 200]_vars

(* C12: a logout leaves the client's session anonymous, whether it was      *)
(* authenticated or already anonymous; a logout of an anonymous session     *)
(* changes no session at all; and no logout changes a user row or a         *)
(* rate-limit window.                                                       *)
C12_LogoutIdempotent ==
    [][resp'.op = "logout" =>
           /\ open_session(session'[resp'.sid], now).user_id = NoUser
           /\ Cookie(resp'.sid).user_id = NoUser => session' = session
           /\ users' = users
           /\ \A s \in Sessions :
                 /\ session'[s].login_attempts = session[s].login_attempts
                 /\ session'[s].login_reset_time = session[s].login_reset_time
                 /\ s # resp'.sid => session'[s] = session[s]]_vars

(* C12 witness: a logout of a client that had authenticated and logged out  *)
(* was refused, the client's session being anonymous and its user's code    *)
(* consumed.                                                                *)
C12_Witness ==
    /\ resp.op = "logout" /\ resp.status = 401
    /\ session[resp.sid].user_id = NoUser
    /\ session[resp.sid].login_attempts # None
    /\ \A s \in Sessions : session[s].user_id = NoUser
    /\ \E e \in DOMAIN users : consumed[e]

(* The request just answered went through rate_limit for a client whose     *)
(* window already existed.                                                  *)
ThroughWindow(s) ==
    /\ resp'.op \in {"register", "login", "verify_mfa"}
    /\ resp'.sid = s
    /\ session[s].login_attempts # None

(* C13: a request arriving more than window_minutes after window_start      *)
(* sets the counter to 0 and window_start to now and is then admitted (the  *)
(* counter reads 1 afterwards), whatever the counter was; a request         *)
(* arriving at or before window_minutes keeps window_start, and is admitted *)
(* or rejected on the counter as it stands.                                 *)
C13_WindowResetsLazily ==
    [][\A s \in Sessions :
         ThroughWindow(s) =>
            IF now - session[s].login_reset_time > window_minutes
            THEN /\ resp'.body # "RateLimited"
                 /\ session'[s].login_reset_time = now
                 /\ session'[s].login_attempts = 1
            ELSE /\ session'[s].login_reset_time = session[s].login_reset_time
                 /\ resp'.body = "RateLimited" <=>
                        session[s].login_attempts >= max_attempts
                 /\ session'[s].login_attempts =
                        IF session[s].login_attempts >= max_attempts
                        THEN session[s].login_attempts
                        ELSE session[s].login_attempts + 1]_vars

(* C13 witness: the client used up its window at time 0 (register, login    *)
(* and three wrong codes, five requests) and its next request, one minute   *)
(* after the window elapsed, was admitted into a new window.                *)
C13_Witness ==
    /\ resp.op = "verify_mfa" /\ resp.body = "TooManyMFAAttempts"
    /\ resp.sid = SoloClient
    /\ users[resp.email].mfa_attempts = mfa_lock_attempts
    /\ users[resp.email].last_login_attempt = 0
    /\ now = window_minutes + 1
    /\ session[SoloClient].login_reset_time = now
    /\ session[SoloClient].login_attempts = 1

(* C14: a request answered 429 by the rate limiter leaves every session     *)
(* (its own counter and binding included) and every user row as they were,  *)
(* draws no code and hands nothing to mail.send; and no session's counter   *)
(* ever exceeds max_attempts.                                               *)
C14_RejectedRequestHasNoEffect ==
    [][/\ resp'.body = "RateLimited" =>
              /\ resp'.status = 429
              /\ session' = session
              /\ users' = users
              /\ token_count' = token_count
              /\ resp'.mail = "none"
       /\ \A s \in Sessions : session'[s].login_attempts <= max_attempts]_vars

(* C14 witness: a login was turned away by the rate limiter although the    *)
(* user is verified and not locked, so its handler would have issued a code.*)
C14_Witness ==
    /\ resp.op = "login" /\ resp.body = "RateLimited"
    /\ session[resp.sid].login_attempts = max_attempts
    /\ \E e \in DOMAIN users :
          /\ users[e].is_verified
          /\ users[e].mfa_attempts < mfa_lock_attempts
          /\ token_count < MaxCodes

(* C15: for a verified user whose attempt counter is at least 3 and who has *)
(* a last login attempt, a handled login with the correct password answers  *)
(* 200, zeroes the counter and stores a fresh code once 15 minutes or more  *)
(* have elapsed since that attempt, and answers 429 AccountLocked, leaving  *)
(* the row as it was, while fewer than 15 minutes have elapsed.             *)
C15_LockoutLiftedByTime ==
    [][\A s \in Sessions, e \in Emails, pw \in Passwords, d \in BOOLEAN :
         (/\ login(s, e, pw, d) /\ ~RateLimited(Cookie(s), now)
          /\ e \in DOMAIN users
          /\ check_password(users[e].password_hash, pw)
          /\ users[e].is_verified
          /\ users[e].mfa_attempts >= mfa_lock_attempts
          /\ users[e].last_login_attempt # None) =>
            IF now - users[e].last_login_attempt >= cooldown_minutes
            THEN /\ resp'.status = 200
                 /\ users'[e].mfa_attempts = 0
                 /\ users'[e].mfa_secret = token_count'
                 /\ token_count' = token_count + 1
            ELSE /\ resp'.status = 429 /\ resp'.body = "AccountLocked"
                 /\ users' = users]_vars

(* C16: whenever register or login hands a message to mail.send, the        *)
(* mutation is already in the table and stays there whether the send        *)
(* succeeds or fails: after register the row exists with the new secret,    *)
(* after login the row holds the code just minted and the time of this      *)
(* login; and a request that commits nothing sends nothing.                 *)
C16_SendAfterCommitNoRollback ==
    [][/\ (resp'.op = "register" /\ resp'.mail # "none") =>
              /\ resp'.email \notin DOMAIN users
              /\ resp'.email \in DOMAIN users'
              /\ users'[resp'.email] =
                     NewUser(users'[resp'.email].password_hash[2], token_count')
              /\ token_count' = token_count + 1
       /\ (resp'.op = "login" /\ resp'.mail # "none") =>
              /\ users'[resp'.email].mfa_secret = token_count'
              /\ token_count' = token_count + 1
              /\ users'[resp'.email].last_login_attempt = now
       /\ (resp'.op \in {"register", "login"} /\ resp'.mail = "none") =>
              /\ users' = users
              /\ resp'.body # "DeliveryError"]_vars

(* C16 witness: a login's send failed and the code it minted and the time   *)
(* of the login are in the row, replacing an earlier login's.               *)
C16_Witness ==
    /\ resp.op = "login" /\ resp.body = "DeliveryError" /\ resp.status = 500
    /\ users[resp.email].mfa_secret = token_count
    /\ users[resp.email].last_login_attempt = now
    /\ now > 0
    /\ Len(issued[resp.email]) >= 3

(* C17: with verify_mfa requests of different clients interleaved, no       *)
(* increment of a user's attempt counter is lost: the counter equals the    *)
(* number of Invalid answers since it was last reset, and so no more than   *)
(* three incorrect codes are answered Invalid between two resets.           *)
C17_NoLostIncrement ==
    \A e \in DOMAIN users :
        /\ users[e].mfa_attempts = strikes[e]
        /\ strikes[e] <= mfa_lock_attempts

(* C18: with requests run one after the other, every user's attempt        *)
(* counter stays in 0..3; a verify_mfa answered Invalid raises it by        *)
(* exactly one and nothing else raises it; it goes to 0 only on a verify_mfa *)
(* answered Success or on a login that finds it at 3 or more with the       *)
(* 15-minute cooldown elapsed; and a login that issues a code while the     *)
(* counter is 1 or 2 leaves it as it is.  (Requests other than verify_mfa,  *)
(* login and the marking of a user as verified leave every row untouched;   *)
(* the rows are examined on the steps that change the table, and an Invalid *)
(* answer is such a step.)                                                  *)
C18_AttemptCounterDiscipline ==
    [][/\ (resp'.op = "verify_mfa" /\ resp'.body = "InvalidMFACode") => users' # users
       /\ users' # users => \A e \in DOMAIN users' :
         /\ users'[e].mfa_attempts \in 0..mfa_lock_attempts
         /\ (e \in DOMAIN users /\ resp'.op \in {"verify_mfa", "login", "mark_verified"}) =>
               LET before == users[e].mfa_attempts
                   after == users'[e].mfa_attempts
                   invalid == /\ resp'.op = "verify_mfa" /\ resp'.email = e
                              /\ resp'.body = "InvalidMFACode"
                   success == /\ resp'.op = "verify_mfa" /\ resp'.email = e
                              /\ resp'.status = 200
                   issuing == /\ resp'.op = "login" /\ resp'.email = e
                              /\ resp'.mail = "mfa"
                   lifting == /\ issuing
                              /\ before >= mfa_lock_attempts
                              /\ users[e].last_login_attempt # None
                              /\ now - users[e].last_login_attempt >= cooldown_minutes
               IN  /\ invalid => after = before + 1
                   /\ after # before =>
                          \/ invalid /\ after = before + 1
                          \/ (success \/ lifting) /\ after = 0
                   /\ (issuing /\ before \in {1, 2}) => after = before
         /\ (e \in DOMAIN users /\ resp'.op \notin {"verify_mfa", "login", "mark_verified"}) =>
               users'[e] = users[e]]_vars

(* C18 witness: a login issued a new code to a user with one or two failed  *)
(* attempts, and the counter still shows them.                              *)
C18_Witness ==
    /\ resp.op = "login" /\ resp.status = 200
    /\ users[resp.email].mfa_attempts \in {1, 2}
    /\ users[resp.email].mfa_attempts = strikes[resp.email]
    /\ users[resp.email].mfa_secret = token_count

(* C19: whenever a login is answered, for any password pw, a login naming   *)
(* an unknown e-mail and a login naming an existing user (unverified,       *)
(* verified or locked) whose password pw is not, have the same outcome,     *)
(* InvalidCredentials; and every handled login of either kind answers 401   *)
(* InvalidCredentials, sends nothing, draws no code, changes no row and     *)
(* changes the sessions only by counting the request in the window of the   *)
(* session the client came with, which depends on neither the e-mail nor    *)
(* the password.                                                            *)
C19_LoginDoesNotRevealRegistration ==
    [][resp'.op = "login" =>
       /\ \A e1 \in Emails \ DOMAIN users, e2 \in DOMAIN users, pw \in Passwords :
              ~check_password(users[e2].password_hash, pw) =>
                  /\ login_outcome(users, e1, pw, now) = "InvalidCredentials"
                  /\ login_outcome(users, e2, pw, now) = login_outcome(users, e1, pw, now)
       /\ \A s \in {resp'.sid} \cap Sessions, e \in {resp'.email} \cap Emails,
             pw \in Passwords, d \in BOOLEAN :
              (/\ e \in DOMAIN users => ~check_password(users[e].password_hash, pw)
               /\ ~RateLimited(Cookie(s), now)
               /\ login(s, e, pw, d)) =>
                  /\ resp' = Response("login", s, e, 401, "InvalidCredentials", "none", FALSE)
                  /\ users' = users
                  /\ token_count' = token_count
                  /\ session' = Save(s, Cookie(s), Admit(Cookie(s), now))
                  /\ session'[s].login_attempts = Window(Cookie(s), now).login_attempts + 1
                  /\ session'[s].user_id = Cookie(s).user_id]_vars

(* C19 witness: a login with a wrong password for a user who is verified    *)
(* and locked was answered InvalidCredentials, while another e-mail is      *)
(* unknown.                                                                 *)
C19_Witness ==
    /\ resp.op = "login" /\ resp.status = 401 /\ resp.body = "InvalidCredentials"
    /\ resp.email \in DOMAIN users
    /\ users[resp.email].is_verified
    /\ AccountLocked(users[resp.email], now)
    /\ Emails \ DOMAIN users # {}

====
